---- MODULE Spec2Model ----
(***************************************************************************)
(* Model of package groot (root resolution, env-file policy, accessors).   *)
(*                                                                         *)
(* Strings are sequences of one-character strings, so that trimming,       *)
(* separator handling, prefix and suffix tests are computed and not        *)
(* assumed.  The platform is the one the package is built for here:        *)
(* os.PathSeparator = '/'.                                                 *)
(***************************************************************************)
EXTENDS Naturals, Sequences, FiniteSets, TLC

\* ------------------------------------------------------------------------
\* Bounds of the model
\* ------------------------------------------------------------------------

\* Longest string handed to ensureCleanPath in SpecClean.
MaxLen == 4

\* Number of directories between the file system's root and the project
\* directory, the latter included.
Depth == 2

\* ------------------------------------------------------------------------
\* strings package
\* ------------------------------------------------------------------------

PathSeparator == "/"

\* A character is a one-character string; a character that cannot be written
\* so is the string of its code point.  The characters of the model are the
\* printable ASCII ones, the white space of unicode.IsSpace, and NUL.
GRAVE == "U+0060"

Printable ==
    <<" ", "!", "\"", "#", "$", "%", "&", "'", "(", ")", "*", "+",
       ",", "-", ".", "/", "0", "1", "2", "3", "4", "5", "6", "7",
       "8", "9", ":", ";", "<", "=", ">", "?", "@", "A", "B", "C",
       "D", "E", "F", "G", "H", "I", "J", "K", "L", "M", "N", "O",
       "P", "Q", "R", "S", "T", "U", "V", "W", "X", "Y", "Z", "[",
       "\\", "]", "^", "_", GRAVE, "a", "b", "c", "d", "e", "f", "g",
       "h", "i", "j", "k", "l", "m", "n", "o", "p", "q", "r", "s",
       "t", "u", "v", "w", "x", "y", "z", "{", "|", "}", "~" >>

NUL  == "U+0000"
VT   == "U+000B"
NEL  == "U+0085"
NBSP == "U+00A0"

WideSpaces ==
    { "U+1680", "U+2000", "U+2001", "U+2002", "U+2003", "U+2004",
      "U+2005", "U+2006", "U+2007", "U+2008", "U+2009", "U+200A",
      "U+2028", "U+2029", "U+202F", "U+205F", "U+3000" }

OtherCodes ==
    { <<NUL, 0>>, <<"\t", 9>>, <<"\n", 10>>, <<VT, 11>>, <<"\f", 12>>, <<"\r", 13>>,
      <<NEL, 133>>, <<NBSP, 160>>,
      <<"U+1680", 5760>>, <<"U+2000", 8192>>, <<"U+2001", 8193>>,
      <<"U+2002", 8194>>, <<"U+2003", 8195>>, <<"U+2004", 8196>>,
      <<"U+2005", 8197>>, <<"U+2006", 8198>>, <<"U+2007", 8199>>,
      <<"U+2008", 8200>>, <<"U+2009", 8201>>, <<"U+200A", 8202>>,
      <<"U+2028", 8232>>, <<"U+2029", 8233>>, <<"U+202F", 8239>>,
      <<"U+205F", 8287>>, <<"U+3000", 12288>> }

\* The code point of a character; strings compare by their bytes, which is
\* the order of the code points.
CodeOf ==
    [c \in { Printable[i] : i \in 1..Len(Printable) } \cup { p[1] : p \in OtherCodes } |->
        IF \E i \in 1..Len(Printable) : Printable[i] = c
        THEN 31 + (CHOOSE i \in 1..Len(Printable) : Printable[i] = c)
        ELSE (CHOOSE p \in OtherCodes : p[1] = c)[2]]

Code(c) == CodeOf[c]

\* unicode.IsSpace
IsSpace(c) ==
    c \in {"\t", "\n", VT, "\f", "\r", " ", NEL, NBSP} \cup WideSpaces

RECURSIVE TrimLeft(_)
TrimLeft(s) ==
    IF s # <<>> /\ IsSpace(Head(s)) THEN TrimLeft(Tail(s)) ELSE s

RECURSIVE TrimRight(_)
TrimRight(s) ==
    IF s # <<>> /\ IsSpace(s[Len(s)])
    THEN TrimRight(SubSeq(s, 1, Len(s) - 1))
    ELSE s

TrimSpace(s) == TrimRight(TrimLeft(s))

HasPrefix(s, p) == Len(s) >= Len(p) /\ SubSeq(s, 1, Len(p)) = p

HasSuffix(s, p) ==
    Len(s) >= Len(p) /\ SubSeq(s, Len(s) - Len(p) + 1, Len(s)) = p

Contains(s, p) ==
    \E i \in 1..(Len(s) - Len(p) + 1) : SubSeq(s, i, i + Len(p) - 1) = p

\* strings.ReplaceAll: non-overlapping occurrences, left to right, one pass.
RECURSIVE ReplaceAll(_, _, _)
ReplaceAll(s, old, new) ==
    IF s = <<>> THEN <<>>
    ELSE IF HasPrefix(s, old)
         THEN new \o ReplaceAll(SubSeq(s, Len(old) + 1, Len(s)), old, new)
         ELSE <<Head(s)>> \o ReplaceAll(Tail(s), old, new)

RECURSIVE JoinStrings(_, _)
JoinStrings(elems, sep) ==
    IF elems = <<>> THEN <<>>
    ELSE IF Len(elems) = 1 THEN elems[1]
    ELSE elems[1] \o sep \o JoinStrings(Tail(elems), sep)

\* strings.ToUpper of a string of one byte, for the bytes that are ASCII
\* characters (GetMainFile hands it the first byte of a file name).
ToUpperOf ==
    [c \in { x \in DOMAIN CodeOf : CodeOf[x] < 128 } |->
        IF CodeOf[c] >= 97 /\ CodeOf[c] <= 122 THEN Printable[CodeOf[c] - 63] ELSE c]

ToUpper(c) == ToUpperOf[c]

\* ------------------------------------------------------------------------
\* path/filepath package (unix)
\* ------------------------------------------------------------------------

\* Index of the first and of the last separator of s, 0 when it has none.
FirstSep(s) ==
    IF \E i \in 1..Len(s) : s[i] = PathSeparator
    THEN CHOOSE i \in 1..Len(s) :
            /\ s[i] = PathSeparator
            /\ \A k \in 1..(i - 1) : s[k] # PathSeparator
    ELSE 0

LastSep(s) ==
    IF \E i \in 1..Len(s) : s[i] = PathSeparator
    THEN CHOOSE i \in 1..Len(s) :
            /\ s[i] = PathSeparator
            /\ \A k \in (i + 1)..Len(s) : s[k] # PathSeparator
    ELSE 0

\* The elements of a path between separators, empty ones included.
RECURSIVE SplitAt(_, _)
SplitAt(s, i) ==
    IF i = 0 THEN <<s>>
    ELSE <<SubSeq(s, 1, i - 1)>>
         \o SplitAt(SubSeq(s, i + 1, Len(s)), FirstSep(SubSeq(s, i + 1, Len(s))))

Split(s) == SplitAt(s, FirstSep(s))

\* Clean's element stack: "." and empty elements dropped, ".." removes the
\* element before it, is dropped at the root and kept in a relative path.
RECURSIVE CleanElems(_, _, _)
CleanElems(todo, out, rooted) ==
    IF todo = <<>> THEN out
    ELSE IF Head(todo) = <<>> \/ Head(todo) = <<".">>
    THEN CleanElems(Tail(todo), out, rooted)
    ELSE IF Head(todo) # <<".", ".">>
    THEN CleanElems(Tail(todo), Append(out, Head(todo)), rooted)
    ELSE IF out # <<>> /\ out[Len(out)] # <<".", ".">>
    THEN CleanElems(Tail(todo), SubSeq(out, 1, Len(out) - 1), rooted)
    ELSE CleanElems(Tail(todo), IF rooted THEN out ELSE Append(out, Head(todo)), rooted)

CleanJoin(rooted, body) ==
    IF rooted THEN <<PathSeparator>> \o body
    ELSE IF body = <<>> THEN <<".">> ELSE body

Clean(path) ==
    IF path = <<>> THEN <<".">>
    ELSE CleanJoin(path[1] = PathSeparator,
                   JoinStrings(CleanElems(Split(path), <<>>, path[1] = PathSeparator),
                               <<PathSeparator>>))

IsAbs(path) == HasPrefix(path, <<PathSeparator>>)

Dir(path) == Clean(SubSeq(path, 1, LastSep(path)))

RECURSIVE StripTrailingSeps(_)
StripTrailingSeps(path) ==
    IF path # <<>> /\ path[Len(path)] = PathSeparator
    THEN StripTrailingSeps(SubSeq(path, 1, Len(path) - 1))
    ELSE path

LastElem(p, cut) ==
    IF cut = Len(p) THEN <<PathSeparator>> ELSE SubSeq(p, cut + 1, Len(p))

BaseOf(p) == LastElem(p, LastSep(p))

Base(path) ==
    IF path = <<>> THEN <<".">> ELSE BaseOf(StripTrailingSeps(path))

\* filepath.Join: the elements from the first non-empty one on, joined and
\* cleaned; the empty string when every element is empty.
RECURSIVE Join(_)
Join(elems) ==
    IF elems = <<>> THEN <<>>
    ELSE IF Head(elems) = <<>> THEN Join(Tail(elems))
    ELSE Clean(JoinStrings(elems, <<PathSeparator>>))

Join2(a, b) == Join(<<a, b>>)

\* Elements of a cleaned path: "/" and "." have none.
Elems(clean) ==
    IF clean = <<PathSeparator>> \/ clean = <<".">> THEN <<>>
    ELSE IF IsAbs(clean) THEN Split(Tail(clean))
    ELSE Split(clean)

RECURSIVE CommonLen(_, _)
CommonLen(a, b) ==
    IF a # <<>> /\ b # <<>> /\ Head(a) = Head(b)
    THEN 1 + CommonLen(Tail(a), Tail(b))
    ELSE 0

DotDots(n) == JoinStrings([i \in 1..n |-> <<".", ".">>], <<PathSeparator>>)

\* Rel, given the elements bl left of the base and tl left of the target
\* after their common elements.
RelRest(bl, tl) ==
    IF bl # <<>> /\ bl[1] = <<".", ".">> THEN [ok |-> FALSE, rel |-> <<>>]
    ELSE IF bl = <<>>
    THEN [ok |-> TRUE, rel |-> JoinStrings(tl, <<PathSeparator>>)]
    ELSE IF tl = <<>> THEN [ok |-> TRUE, rel |-> DotDots(Len(bl))]
    ELSE [ok |-> TRUE,
          rel |-> DotDots(Len(bl)) \o <<PathSeparator>>
                  \o JoinStrings(tl, <<PathSeparator>>)]

RelFrom(be, te, n) ==
    RelRest(SubSeq(be, n + 1, Len(be)), SubSeq(te, n + 1, Len(te)))

RelElems(be, te) == RelFrom(be, te, CommonLen(be, te))

RelClean(base, targ) ==
    IF targ = base THEN [ok |-> TRUE, rel |-> <<".">>]
    ELSE IF IsAbs(base) # IsAbs(targ) THEN [ok |-> FALSE, rel |-> <<>>]
    ELSE RelElems(Elems(base), Elems(targ))

\* filepath.Rel: [ok |-> FALSE] is its error.
Rel(basepath, targpath) == RelClean(Clean(basepath), Clean(targpath))

\* ------------------------------------------------------------------------
\* groot: helpers
\* ------------------------------------------------------------------------

replaceStringByte(s, old, new) ==
    [i \in 1..Len(s) |-> IF s[i] = old THEN new ELSE s[i]]

ensureCleanPath(path) ==
    LET p1 == replaceStringByte(TrimSpace(path), PathSeparator, "/")
        p2 == replaceStringByte(TrimSpace(p1), "/", PathSeparator)
    IN  ReplaceAll(p2, <<PathSeparator, PathSeparator>>, <<PathSeparator>>)

\* cleanFilenames: the set of trimmed, non-empty names without a separator.
\* The code returns the keys of a map: SetRoot below takes them in any order.
NormName(f) == replaceStringByte(TrimSpace(f), PathSeparator, "/")

KeptNames(normed) ==
    { normed[i] : i \in { j \in 1..Len(normed) :
          normed[j] # <<>> /\ ~Contains(normed[j], <<"/">>) } }

cleanFilenames(filenames) ==
    KeptNames([i \in 1..Len(filenames) |-> NormName(filenames[i])])

\* Every enumeration of a set, as the sequences without repetition over it.
Orders(S) ==
    { o \in [1..Cardinality(S) -> S] : \A x \in S : \E i \in DOMAIN o : o[i] = x }

\* ------------------------------------------------------------------------
\* The process environment and the file system
\* ------------------------------------------------------------------------

VARIABLES
    fs,        \* the file system: path |-> "file" or "dir", for what exists
    env,       \* the process environment: key |-> value, <<>> when unset
    grootEnv,  \* the key under which the root is stored
    last       \* the call that has just returned, NoCall between calls

vars == <<fs, env, grootEnv, last>>

Getenv(e, key) == IF key \in DOMAIN e THEN e[key] ELSE <<>>

\* os.Setenv refuses (EINVAL) an empty key, a key with '=' or NUL, and a
\* value with NUL; no caller in the package looks at its error, and the
\* environment is then as it was.
SetenvFails(key, value) ==
    \/ key = <<>>
    \/ \E i \in 1..Len(key) : key[i] \in {"=", NUL}
    \/ \E i \in 1..Len(value) : value[i] = NUL

Setenv(e, key, value) ==
    IF SetenvFails(key, value) THEN e
    ELSE [k \in DOMAIN e \cup {key} |-> IF k = key THEN value ELSE e[k]]

Unsetenv(e, key) == [k \in DOMAIN e |-> IF k = key THEN <<>> ELSE e[k]]

\* The project lies Depth directories below the file system's root, in
\* /a/b/... ; ChainDirs are that directory and those above it, nearest first.
DirNames == <<"a", "b", "c", "d">>

RECURSIVE DirAt(_)
DirAt(k) ==
    IF k = 0 THEN <<PathSeparator>> ELSE Join2(DirAt(k - 1), <<DirNames[k]>>)

ChainDirs == [i \in 1..(Depth + 1) |-> DirAt(Depth + 1 - i)]

\* os.Getwd: the process runs in the project directory.
WorkDir == DirAt(Depth)

\* os.Stat / os.Lstat (the model has no symbolic links): "dir", "file", or
\* "none" for the error.  The kernel resolves a path element by element from
\* the root directory: every element, "." and the empty one after a trailing
\* separator included, is looked up in a directory; ".." is the parent.
Entry(cur, name) ==
    IF cur = <<PathSeparator>> THEN cur \o name ELSE cur \o <<PathSeparator>> \o name

RECURSIVE StatWalk(_, _)
StatWalk(elems, cur) ==
    IF cur \notin DOMAIN fs THEN "none"
    ELSE IF elems = <<>> THEN fs[cur]
    ELSE IF fs[cur] # "dir" THEN "none"
    ELSE IF Head(elems) = <<>> \/ Head(elems) = <<".">> THEN StatWalk(Tail(elems), cur)
    ELSE IF Head(elems) = <<".", ".">> THEN StatWalk(Tail(elems), Dir(cur))
    ELSE StatWalk(Tail(elems), Entry(cur, Head(elems)))

\* A relative path is resolved from the working directory of the process.
Stat(path) ==
    IF path = <<>> THEN "none"
    ELSE StatWalk(Split(path),
                  IF path[1] = PathSeparator THEN <<PathSeparator>> ELSE WorkDir)

RECURSIVE Less(_, _)
Less(a, b) ==
    IF a = <<>> THEN b # <<>>
    ELSE IF b = <<>> THEN FALSE
    ELSE IF Head(a) = Head(b) THEN Less(Tail(a), Tail(b))
    ELSE Code(Head(a)) < Code(Head(b))

RECURSIVE SortNames(_)
SortNames(S) ==
    IF S = {} THEN <<>>
    ELSE LET least == CHOOSE x \in S : \A y \in S \ {x} : Less(x, y)
         IN  <<least>> \o SortNames(S \ {least})

\* Readdirnames of a directory.
ChildrenAt(d) ==
    { Base(p) : p \in { q \in DOMAIN fs :
                          q # d /\ HasPrefix(q, d) /\ Dir(q) = d } }

Children(dir) == ChildrenAt(IF IsAbs(dir) THEN Clean(dir) ELSE Join2(WorkDir, dir))

\* filepath.Match (unix), as match.go computes it.  getEsc reads one
\* character of a class, escaped or not; it fails on '-', ']' and on the end
\* of the pattern, before or after the character.
BadEsc == [ok |-> FALSE, r |-> NUL, rest |-> <<>>]

EscChar(chunk) ==
    IF Len(chunk) = 1 THEN BadEsc
    ELSE [ok |-> TRUE, r |-> chunk[1], rest |-> Tail(chunk)]

getEsc(chunk) ==
    IF chunk = <<>> THEN BadEsc
    ELSE IF chunk[1] \in {"-", "]"} THEN BadEsc
    ELSE IF chunk[1] # "\\" THEN EscChar(chunk)
    ELSE IF Len(chunk) = 1 THEN BadEsc
    ELSE EscChar(Tail(chunk))

InRange(lo, hi, r) == Code(lo) <= Code(r) /\ Code(r) <= Code(hi)

\* The ranges of a class up to its ']': chunk is what follows '[' or '[^',
\* r the character of the name, some whether a range was read, match
\* whether one held r.
BadClass == [ok |-> FALSE, rest |-> <<>>, match |-> FALSE]

RECURSIVE classRanges(_, _, _, _)

classHi(lo, hi, r, match) ==
    IF ~hi.ok THEN BadClass
    ELSE classRanges(hi.rest, r, TRUE, match \/ InRange(lo, hi.r, r))

classLo(lo, r, match) ==
    IF ~lo.ok THEN BadClass
    ELSE IF lo.rest[1] = "-" THEN classHi(lo.r, getEsc(Tail(lo.rest)), r, match)
    ELSE classRanges(lo.rest, r, TRUE, match \/ InRange(lo.r, lo.r, r))

classRanges(chunk, r, some, match) ==
    IF chunk # <<>> /\ chunk[1] = "]" /\ some
    THEN [ok |-> TRUE, rest |-> Tail(chunk), match |-> match]
    ELSE classLo(getEsc(chunk), r, match)

\* matchChunk: chunk has no '*' outside a class.  Once the match has failed
\* the rest of chunk is still read, for its syntax, and s no longer is.
BadChunk == [err |-> TRUE, ok |-> FALSE, rest |-> <<>>]

RECURSIVE matchChunkAt(_, _, _)

chunkRanged(c, s, failed, negated) ==
    IF ~c.ok THEN BadChunk
    ELSE matchChunkAt(c.rest, IF failed THEN s ELSE Tail(s),
                      failed \/ (c.match = negated))

chunkNegated(chunk, s, failed, negated) ==
    chunkRanged(classRanges(chunk, IF failed THEN NUL ELSE s[1], FALSE, FALSE),
                s, failed, negated)

chunkClass(chunk, s, failed) ==
    IF chunk # <<>> /\ chunk[1] = "^"
    THEN chunkNegated(Tail(chunk), s, failed, TRUE)
    ELSE chunkNegated(chunk, s, failed, FALSE)

chunkLit(chunk, s, failed) ==
    matchChunkAt(Tail(chunk), IF failed THEN s ELSE Tail(s),
                 failed \/ chunk[1] # s[1])

chunkHead(chunk, s, failed) ==
    IF chunk[1] = "[" THEN chunkClass(Tail(chunk), s, failed)
    ELSE IF chunk[1] = "?"
    THEN matchChunkAt(Tail(chunk), IF failed THEN s ELSE Tail(s),
                      failed \/ s[1] = PathSeparator)
    ELSE IF chunk[1] # "\\" THEN chunkLit(chunk, s, failed)
    ELSE IF Len(chunk) = 1 THEN BadChunk
    ELSE chunkLit(Tail(chunk), s, failed)

matchChunkAt(chunk, s, failed) ==
    IF chunk = <<>>
    THEN [err |-> FALSE, ok |-> ~failed, rest |-> IF failed THEN <<>> ELSE s]
    ELSE chunkHead(chunk, s, failed \/ s = <<>>)

matchChunk(chunk, s) == matchChunkAt(chunk, s, FALSE)

\* scanChunk: the pattern without its leading stars, and the length of its
\* first chunk, which ends before the next '*' outside a class.
RECURSIVE stripStars(_)
stripStars(pattern) ==
    IF pattern # <<>> /\ pattern[1] = "*" THEN stripStars(Tail(pattern)) ELSE pattern

RECURSIVE scanEnd(_, _, _)
scanEnd(pattern, i, inrange) ==
    IF i > Len(pattern) THEN Len(pattern)
    ELSE IF pattern[i] = "\\"
    THEN scanEnd(pattern, IF i + 1 <= Len(pattern) THEN i + 2 ELSE i + 1, inrange)
    ELSE IF pattern[i] = "[" THEN scanEnd(pattern, i + 1, TRUE)
    ELSE IF pattern[i] = "]" THEN scanEnd(pattern, i + 1, FALSE)
    ELSE IF pattern[i] = "*" /\ ~inrange THEN i - 1
    ELSE scanEnd(pattern, i + 1, inrange)

\* Match, for a well-formed pattern: a chunk is matched where it first fits
\* (after a star, at the first place that skips no separator), and the last
\* chunk must use up the name.
RECURSIVE Match(_, _)
RECURSIVE matchSkip(_, _, _, _)

matchSkipped(chunk, rest, name, i, m) ==
    IF m.ok /\ ~(rest = <<>> /\ m.rest # <<>>) THEN Match(rest, m.rest)
    ELSE matchSkip(chunk, rest, name, i + 1)

matchSkip(chunk, rest, name, i) ==
    IF i > Len(name) THEN FALSE
    ELSE IF name[i] = PathSeparator THEN FALSE
    ELSE matchSkipped(chunk, rest, name, i,
                      matchChunk(chunk, SubSeq(name, i + 1, Len(name))))

matchTried(star, chunk, rest, name, m) ==
    IF m.ok /\ (m.rest = <<>> \/ rest # <<>>) THEN Match(rest, m.rest)
    ELSE IF star THEN matchSkip(chunk, rest, name, 1)
    ELSE FALSE

matchChunked(star, chunk, rest, name) ==
    IF star /\ chunk = <<>> THEN ~Contains(name, <<PathSeparator>>)
    ELSE matchTried(star, chunk, rest, name, matchChunk(chunk, name))

matchCut(star, pattern, n, name) ==
    matchChunked(star, SubSeq(pattern, 1, n), SubSeq(pattern, n + 1, Len(pattern)), name)

matchStarred(star, pattern, name) ==
    matchCut(star, pattern, scanEnd(pattern, 1, FALSE), name)

Match(pattern, name) ==
    IF pattern = <<>> THEN name = <<>>
    ELSE matchStarred(pattern[1] = "*", stripStars(pattern), name)

\* ErrBadPattern, which Glob finds by Match(pattern, ""): some chunk of the
\* pattern is malformed.
RECURSIVE BadPattern(_)

badCut(pattern, n) ==
    \/ matchChunk(SubSeq(pattern, 1, n), <<>>).err
    \/ BadPattern(SubSeq(pattern, n + 1, Len(pattern)))

badFrom(pattern) == badCut(pattern, scanEnd(pattern, 1, FALSE))

BadPattern(pattern) ==
    IF pattern = <<>> THEN FALSE ELSE badFrom(stripStars(pattern))

hasMeta(path) == \E i \in 1..Len(path) : path[i] \in {"*", "?", "[", "\\"}

\* Glob's directory part of a pattern cut after its last separator.
GlobDir(d0) ==
    IF d0 = <<>> THEN <<".">>
    ELSE IF d0 = <<PathSeparator>> THEN d0
    ELSE SubSeq(d0, 1, Len(d0) - 1)

JoinAll(dir, hits) == [i \in 1..Len(hits) |-> Join2(dir, hits[i])]

GlobFailed == [err |-> TRUE, files |-> <<>>]

\* glob: the sorted names of dir that match file, joined to dir; Match is
\* asked about every name, and its error, which does not depend on the
\* name, ends the listing.
GlobNames(dir, file, names) ==
    IF names = <<>> THEN [err |-> FALSE, files |-> <<>>]
    ELSE IF BadPattern(file) THEN GlobFailed
    ELSE [err |-> FALSE,
          files |-> JoinAll(dir, SelectSeq(names, LAMBDA n : Match(file, n)))]

GlobIn(dir, file) ==
    IF Stat(dir) # "dir" THEN [err |-> FALSE, files |-> <<>>]
    ELSE GlobNames(dir, file, SortNames(Children(dir)))

GlobMore(g, rest) ==
    IF rest.err THEN GlobFailed
    ELSE [err |-> FALSE, files |-> g.files \o rest.files]

\* The matches of file in each directory of dirs in turn.
RECURSIVE GlobEach(_, _)
GlobNext(g, dirs, file) ==
    IF g.err THEN GlobFailed ELSE GlobMore(g, GlobEach(dirs, file))

GlobEach(dirs, file) ==
    IF dirs = <<>> THEN [err |-> FALSE, files |-> <<>>]
    ELSE GlobNext(GlobIn(Head(dirs), file), Tail(dirs), file)

GlobOver(m, file) == IF m.err THEN GlobFailed ELSE GlobEach(m.files, file)

\* filepath.Glob: a malformed pattern is an error; a pattern without a magic
\* character is looked up; otherwise the pattern is cut after its last
\* separator, and the file part is matched in the directory part, or, when
\* that part holds a magic character, in every directory that it matches.
RECURSIVE Glob(_)
GlobSplit(pattern, dir, file) ==
    IF ~hasMeta(dir) THEN GlobIn(dir, file)
    ELSE IF dir = pattern THEN GlobFailed
    ELSE GlobOver(Glob(dir), file)

GlobCut(pattern, cut) ==
    GlobSplit(pattern, GlobDir(SubSeq(pattern, 1, cut)),
              SubSeq(pattern, cut + 1, Len(pattern)))

Glob(pattern) ==
    IF BadPattern(pattern) THEN GlobFailed
    ELSE IF ~hasMeta(pattern)
    THEN [err |-> FALSE,
          files |-> IF Stat(pattern) # "none" THEN <<pattern>> ELSE <<>>]
    ELSE GlobCut(pattern, LastSep(pattern))

\* findFiles: the matches of each name in turn; an error of Glob ends it.
AppendFound(g, rest) ==
    IF g.err \/ rest.err THEN [err |-> TRUE, files |-> <<>>]
    ELSE [err |-> FALSE, files |-> g.files \o rest.files]

RECURSIVE findFiles(_, _)
findFiles(dirPath, fileNames) ==
    IF fileNames = <<>> THEN [err |-> FALSE, files |-> <<>>]
    ELSE AppendFound(Glob(Join2(dirPath, Head(fileNames))),
                     findFiles(dirPath, Tail(fileNames)))

\* ------------------------------------------------------------------------
\* groot: execution context
\* ------------------------------------------------------------------------

kTMPDIR == <<"T", "M", "P", "D", "I", "R">>

\* The directory os.TempDir answers when TMPDIR is not set.
DefaultTempDir == <<"/", "t">>

\* os.TempDir(): the value of TMPDIR, or the default when it is empty.
TempDir(e) ==
    IF Getenv(e, kTMPDIR) = <<>> THEN DefaultTempDir ELSE Getenv(e, kTMPDIR)

\* GetMainFile, given the file of the outermost resolvable frame.
GetMainFile(goFile) ==
    IF ~HasSuffix(goFile, <<".", "g", "o">>) THEN [ok |-> FALSE, file |-> <<>>]
    ELSE [ok |-> TRUE,
          file |-> IF Len(goFile) > 1
                   THEN <<ToUpper(goFile[1])>> \o Tail(goFile)
                   ELSE goFile]

NoProjectDir == [ok |-> FALSE, dir |-> <<>>]

\* GetProjectDir's last step: the executable's directory must be a directory.
ExecDirChecked(execDir, st) ==
    IF st = "dir" THEN [ok |-> TRUE, dir |-> execDir] ELSE NoProjectDir

ProjectDirFrom(e, execDir, main) ==
    IF ~main.ok THEN NoProjectDir
    ELSE IF Contains(execDir, TempDir(e)) THEN [ok |-> TRUE, dir |-> Dir(main.file)]
    ELSE ExecDirChecked(execDir, Stat(execDir))

\* GetProjectDir in environment e, given what os.Executable and the call
\* stack answer.
GetProjectDir(e, c) ==
    IF ~c.execOK THEN NoProjectDir
    ELSE ProjectDirFrom(e, Dir(c.exec), GetMainFile(c.goFile))

\* ------------------------------------------------------------------------
\* groot: root resolution
\* ------------------------------------------------------------------------

RECURSIVE ParentsOf(_)
ParentsOf(path) ==
    IF path # Dir(path) THEN <<path>> \o ParentsOf(Dir(path)) ELSE <<path>>

IterateThroughPath(path) == ParentsOf(ensureCleanPath(path))

\* IsEntryAt without the test for a directory.
IsEntryAtAnyKind(path, entryFile) == Stat(Join2(path, entryFile)) # "none"

\* The test of SetRoot's loop: the entry file exists and is no directory.
IsEntryAt(path, entryFile) == Stat(Join2(path, entryFile)) \notin {"none", "dir"}

\* The test of FindGitRootFrom's loop.
IsGitAt(path) == Stat(Join2(path, <<".", "g", "i", "t">>)) = "dir"

\* SetRoot's loop over the paths left: the env files found so far, and where
\* it stopped (hit), unless findFiles failed (err).  WalkStep is one turn of
\* the loop, f what findFiles returned for the first of paths.
RECURSIVE Walk(_, _, _, _)
RECURSIVE WalkStep(_, _, _, _, _)

WalkStep(paths, entryFile, names, found, f) ==
    IF f.err THEN [err |-> TRUE, hit |-> FALSE, dir |-> <<>>, found |-> <<>>]
    ELSE IF IsEntryAt(Head(paths), entryFile)
    THEN [err |-> FALSE, hit |-> TRUE, dir |-> Head(paths), found |-> found \o f.files]
    ELSE Walk(Tail(paths), entryFile, names, found \o f.files)

Walk(paths, entryFile, names, found) ==
    IF paths = <<>> THEN [err |-> FALSE, hit |-> FALSE, dir |-> <<>>, found |-> found]
    ELSE WalkStep(paths, entryFile, names, found, findFiles(Head(paths), names))

\* godotenv.Load reads its files in turn and stops at the first that is no
\* regular file or whose content does not parse; of a file it has parsed it
\* sets, with os.Setenv, the variables that the environment does not hold yet.
\* What the files hold is not part of the file system of the model: load.bad
\* is the place in the list of a file that does not parse (0: none), and
\* load.sets the assignments that the first file holds.
LoadFails(files, load) ==
    \/ \E i \in 1..Len(files) : Stat(files[i]) # "file"
    \/ load.bad \in 1..Len(files)

RECURSIVE LoadVars(_, _)
LoadVars(e, sets) ==
    IF sets = <<>> THEN e
    ELSE IF Getenv(e, Head(sets)[1]) # <<>> THEN LoadVars(e, Tail(sets))
    ELSE LoadVars(Setenv(e, Head(sets)[1], Head(sets)[2]), Tail(sets))

LoadEnv(e, files, load) ==
    IF files # <<>> /\ Stat(files[1]) = "file" /\ load.bad # 1
    THEN LoadVars(e, load.sets)
    ELSE e

\* What a resolution call leaves: its error, the environment, the project
\* directory it started from, the env paths found, the list handed to the
\* loader (called: the loader was invoked), and whether it stored a root.
Failed(e, err, start) ==
    [err |-> err, env |-> e, start |-> start, cand |-> <<>>, loaded |-> <<>>,
     called |-> FALSE, commit |-> FALSE]

Stored(e, start) ==
    [err |-> "nil", env |-> e, start |-> start, cand |-> <<>>, loaded |-> <<>>,
     called |-> FALSE, commit |-> TRUE]

Loaded(e, start, foundEnvPaths, hit, failed) ==
    [err |-> IF failed THEN "load" ELSE "nil", env |-> e, start |-> start,
     cand |-> foundEnvPaths, loaded |-> foundEnvPaths, called |-> TRUE,
     commit |-> hit]

NotLoaded(e, start, foundEnvPaths, hit, err) ==
    [err |-> err, env |-> e, start |-> start, cand |-> foundEnvPaths,
     loaded |-> <<>>, called |-> FALSE, commit |-> hit]

\* MissingNames satisfied by any one requested name being found.
MissingNamesUnlessOneFound(names, foundEnvPaths) ==
    IF \E j \in 1..Len(names) : \E k \in 1..Len(foundEnvPaths) :
           Base(foundEnvPaths[k]) = names[j]
    THEN {}
    ELSE { names[i] : i \in 1..Len(names) }

\* The requested names that are the base name of no path found.
MissingNames(names, foundEnvPaths) ==
    { names[i] : i \in { j \in 1..Len(names) :
          \A k \in 1..Len(foundEnvPaths) : Base(foundEnvPaths[k]) # names[j] } }

\* SetRoot, lines 182-212: the env files policy.
SetRootEnvFiles(e, start, foundEnvPaths, hit, envFiles, definedEnvsFlag, names, load) ==
    IF Len(envFiles) = 0 \/ ~definedEnvsFlag
    THEN IF Len(foundEnvPaths) # 0
         THEN Loaded(LoadEnv(e, foundEnvPaths, load), start, foundEnvPaths, hit,
                     LoadFails(foundEnvPaths, load))
         ELSE NotLoaded(e, start, foundEnvPaths, hit, "ErrNoEnvDefined")
    ELSE IF MissingNames(names, foundEnvPaths) # {}
    THEN NotLoaded(e, start, foundEnvPaths, hit, "ErrMissingEnvs")
    ELSE IF Len(foundEnvPaths) > 0
    THEN Loaded(LoadEnv(e, foundEnvPaths, load), start, foundEnvPaths, hit,
                     LoadFails(foundEnvPaths, load))
    ELSE NotLoaded(e, start, foundEnvPaths, hit, "nil")

\* SetRoot, lines 172-180: the root is read back from the environment.
SetRootLookup(e, root, start, w, entryFile, envFiles, definedEnvsFlag, names, load) ==
    IF root = <<>> THEN Failed(e, "no root found", start)
    ELSE SetRootEnvFiles(e, start,
                         IF HasSuffix(entryFile, <<".", "e", "n", "v">>)
                         THEN w.found \o <<Join2(root, entryFile)>>
                         ELSE w.found,
                         w.hit, envFiles, definedEnvsFlag, names, load)

\* SetRoot, lines 160-171, after the loop: e is the environment it left.
SetRootWalked(e, key, start, w, entryFile, envFiles, definedEnvsFlag, names, load) ==
    SetRootLookup(e, Getenv(e, key), start, w, entryFile, envFiles,
                  definedEnvsFlag, names, load)

\* SetRootWalk without the os.Setenv of the loop.
SetRootWalkNoCommit(e, key, start, w, entryFile, envFiles, definedEnvsFlag, names, load) ==
    IF w.err THEN Failed(e, "glob", start)
    ELSE SetRootWalked(e, key, start, w, entryFile, envFiles, definedEnvsFlag,
                       names, load)

SetRootWalk(e, key, start, w, entryFile, envFiles, definedEnvsFlag, names, load) ==
    IF w.err THEN Failed(e, "glob", start)
    ELSE SetRootWalked(IF w.hit THEN Setenv(e, key, w.dir) ELSE e, key, start, w,
                       entryFile, envFiles, definedEnvsFlag, names, load)

SetRootFrom(e, key, pd, entryFile, envFiles, definedEnvsFlag, names, load) ==
    IF ~pd.ok THEN Failed(e, "project dir", <<>>)
    ELSE SetRootWalk(e, key, pd.dir,
                     Walk(IterateThroughPath(pd.dir), entryFile, names, <<>>),
                     entryFile, envFiles, definedEnvsFlag, names, load)

\* SetRoot, lines 145-158: entryFile is trimmed, names is cleanFilenames' slice.
SetRootArgs(e, key, entryFile, envFiles, definedEnvsFlag, names, c, load) ==
    IF entryFile = <<>> THEN Failed(e, "entry file not defined", <<>>)
    ELSE IF definedEnvsFlag /\ Len(names) = 0 THEN Failed(e, "ErrBadEnvsDefined", <<>>)
    ELSE SetRootFrom(e, key, GetProjectDir(e, c), entryFile, envFiles,
                     definedEnvsFlag, names, load)

\* SetRoot from environment e under key, in execution context c.
SetRootCall(e, key, entryFile, envFiles, names, c, load) ==
    SetRootArgs(e, key, TrimSpace(entryFile), envFiles,
                TrimSpace(JoinStrings(envFiles, <<>>)) # <<>>, names, c, load)

\* SetRootNoEnv's return value, from SetRoot's.
SetRootNoEnvErr(err) == IF err = "ErrNoEnvDefined" THEN "nil" ELSE err

\* FindGitRootFrom
RECURSIVE FirstGit(_)
FirstGit(paths) ==
    IF paths = <<>> THEN <<>>
    ELSE IF IsGitAt(Head(paths)) THEN Head(paths)
    ELSE FirstGit(Tail(paths))

FindGitRootFrom(startPath) == FirstGit(IterateThroughPath(startPath))

GitFound(e, key, start, root) ==
    IF root = <<>> THEN Failed(e, "no git root found", start)
    ELSE Stored(Setenv(e, key, root), start)

SetRootFromGitCall(e, key, pd) ==
    IF ~pd.ok THEN Failed(e, "project dir", <<>>)
    ELSE GitFound(e, key, pd.dir, FindGitRootFrom(pd.dir))

\* SetRootFromPath, lines 266-276: st is what os.Stat(path) answered.
PathChecked(e, key, path, st) ==
    IF st = "none" THEN Failed(e, "stat", <<>>)
    ELSE IF st # "dir" THEN Failed(e, "path is not a directory", <<>>)
    ELSE Stored(Setenv(e, key, path), <<>>)

PathJoined(e, key, path, pd) ==
    IF ~pd.ok THEN Failed(e, "project dir", <<>>)
    ELSE PathChecked(e, key, Join2(pd.dir, path), Stat(Join2(pd.dir, path)))

PathTrimmed(e, key, path, c) ==
    IF path = <<>> THEN Failed(e, "path cannot be empty", <<>>)
    ELSE IF IsAbs(path) THEN PathChecked(e, key, path, Stat(path))
    ELSE PathJoined(e, key, path, GetProjectDir(e, c))

SetRootFromPathCall(e, key, path, c) == PathTrimmed(e, key, TrimSpace(path), c)

GetRoot == Getenv(env, grootEnv)

\* ------------------------------------------------------------------------
\* groot: accessors
\* ------------------------------------------------------------------------

IsRoot(path) ==
    IF GetRoot = <<>> THEN FALSE
    ELSE ensureCleanPath(path) = ensureCleanPath(GetRoot)

\* The test IsInRoot makes of the relative path: does it start with ".." ?
EscapesRoot(rel) == HasPrefix(rel, <<".", ".">>)

InRootOf(r) == IF ~r.ok THEN FALSE ELSE ~EscapesRoot(r.rel)

IsInRoot(path) ==
    IF GetRoot = <<>> THEN FALSE
    ELSE InRootOf(Rel(ensureCleanPath(GetRoot), ensureCleanPath(path)))

GetRelativeToRoot(path) ==
    IF GetRoot = <<>> THEN [ok |-> FALSE, rel |-> <<>>]
    ELSE Rel(ensureCleanPath(GetRoot), ensureCleanPath(path))

\* ------------------------------------------------------------------------
\* The file systems, contexts and arguments of the model
\* ------------------------------------------------------------------------

dRoot == DirAt(0)
dA    == DirAt(1)
dAB   == DirAt(2)
nM    == <<"m">>
nEnv  == <<".", "e", "n", "v">>
nGit  == <<".", "g", "i", "t">>
nZ    == <<"z">>
nExe  == <<"x">>

\* A project directory beside the chain's whose name holds the characters of
\* a pattern: "[b]" beside "b".
MagicDir == Join2(DirAt(Depth - 1), <<"[", DirNames[Depth], "]">>)

\* What every file system of the model holds: the directories, the temporary
\* directory, and the two places of the executable.
BaseEntries ==
    { <<ChainDirs[i], "dir">> : i \in 1..(Depth + 1) }
    \cup { <<DefaultTempDir, "dir">>, <<Join2(DirAt(Depth), nExe), "file">>,
           <<Join2(DefaultTempDir, nExe), "file">> }

\* A file system: in each directory of the chain an entry m (absent, a file
\* or a directory) and a file .env or none; with gt = "repo", .git is a file
\* in the project directory and a directory in its parent.
FsOf(mk, ev, gt) ==
    LET E == BaseEntries
             \cup { <<Join2(ChainDirs[i], nM), mk[i]>> :
                        i \in { j \in 1..(Depth + 1) : mk[j] # "none" } }
             \cup { <<Join2(ChainDirs[i], nEnv), "file">> : i \in ev }
             \cup (IF gt = "repo"
                   THEN { <<Join2(ChainDirs[1], nGit), "file">>,
                          <<Join2(ChainDirs[2], nGit), "dir">> }
                   ELSE {})
    IN  [p \in { e[1] : e \in E } |-> (CHOOSE e \in E : e[1] = p)[2]]

\* Every placement of m; .env in no directory, in all of them, or in one:
\* the project directory or its parent.
EnvPlacements ==
    { {}, 1..(Depth + 1), {1}, {2} }

FsFamily ==
    { FsOf(mk, ev, "repo") : mk \in [1..(Depth + 1) -> {"none", "file", "dir"}],
                             ev \in EnvPlacements }

\* File system f with the directory MagicDir, which holds the executable and
\* a file .env.
WithMagic(f) ==
    [p \in DOMAIN f \cup {MagicDir, Join2(MagicDir, nExe), Join2(MagicDir, nEnv)} |->
        IF p = MagicDir THEN "dir"
        ELSE IF p \in {Join2(MagicDir, nExe), Join2(MagicDir, nEnv)} THEN "file"
        ELSE f[p]]

\* File systems with MagicDir: m a file or absent in each directory above
\* the project directory; .env in the project directory or in all.
FsMagic ==
    { WithMagic(FsOf(mk, ev, "repo")) :
        mk \in { m \in [1..(Depth + 1) -> {"none", "file"}] : m[1] = "none" },
        ev \in { {1}, 1..(Depth + 1) } }

\* The file systems of Spec: no m at all; m a file in the parent only; m a
\* directory in the project directory and a file at the top.
FsFew ==
    { FsOf([i \in 1..(Depth + 1) |-> "none"], {1}, "repo"),
      FsOf([i \in 1..(Depth + 1) |-> IF i = 2 THEN "file" ELSE "none"],
           1..(Depth + 1), "none"),
      FsOf([i \in 1..(Depth + 1) |->
               IF i = 1 THEN "dir" ELSE IF i = Depth + 1 THEN "file" ELSE "none"],
           {Depth + 1}, "repo") }

\* os.Executable and the outermost frame: a standalone binary in the project
\* directory (built with -trimpath: the frame's file is relative), a 'go run'
\* binary under the temporary directory with main in the parent directory, a
\* stack whose outermost frame is no .go file, a failure of os.Executable,
\* and a standalone binary in the directory MagicDir.
GoMain == Join2(DirAt(Depth - 1), <<"m", ".", "g", "o">>)

Standalone ==
    [execOK |-> TRUE, exec |-> Join2(DirAt(Depth), nExe),
     goFile |-> <<"m", ".", "g", "o">>]

Contexts ==
    { Standalone,
      [execOK |-> TRUE, exec |-> Join2(DefaultTempDir, nExe), goFile |-> GoMain],
      [execOK |-> TRUE, exec |-> Join2(DirAt(Depth), nExe), goFile |-> <<"m">>],
      [execOK |-> FALSE, exec |-> <<>>, goFile |-> <<>>],
      [execOK |-> TRUE, exec |-> Join2(MagicDir, nExe),
       goFile |-> <<"m", ".", "g", "o">>] }

kGROOT == <<"G", "R", "O", "O", "T">>
kPATH  == <<"P", "A", "T", "H">>

\* What the env files hold in a call: nothing of note; a first file that
\* does not parse; a first file that assigns the default key and PATH; the
\* same with a second file that does not parse.
zDir == <<PathSeparator, "z">>

LoadArgs ==
    { [bad |-> 0, sets |-> <<>>],
      [bad |-> 1, sets |-> <<>>],
      [bad |-> 0, sets |-> << <<kGROOT, zDir>>, <<kPATH, zDir>> >>],
      [bad |-> 2, sets |-> << <<kGROOT, zDir>>, <<kPATH, zDir>> >>] }

\* A call of SetRoot runs in a context, over env files that hold something;
\* what they hold is varied in the standalone context.
Runs ==
    { [c |-> c, load |-> [bad |-> 0, sets |-> <<>>]] : c \in Contexts }
    \cup { [c |-> Standalone, load |-> l] : l \in LoadArgs }

\* Under the default key the variable of the root is set when the loader
\* runs, and so is PATH: the assignments of LoadArgs change nothing.
RunsResolve == { run \in Runs : run.load.sets = <<>> }

KeyArgs == { kGROOT, <<" ">> \o kPATH \o <<"\r">>, <<"A", "=", "B">>, <<NBSP>> }

EntryArgs == { <<" ">> \o nM \o <<"\r">>, nEnv, <<"\t">> }

EnvFileArgs ==
    { <<>>, << <<" ">> >>, <<nEnv>>, << <<"a", "/", "b">> >>, << <<"[">> >>,
      << <<"*">> >>, <<nZ, <<" ">> \o nEnv>>, <<nM, nEnv>> }

PathArgs ==
    { dA, <<"b">>, <<" ">>, Join2(DirAt(Depth), nExe), <<"/", "z">>,
      <<"/", "a", "/", "/", "b", "/">>, <<"/", "a", "/", "z", "/", ".", ".">> }

QueryArgs ==
    { dRoot, dA, dAB, <<"/", "a", "/", "b", "/", "c">>,
      <<"/", "a", "/", ".", ".", "c">>, <<"/", "a", "/", "c">>,
      <<"/", "a", "b">>, <<"/", "a", "/", "/", "b", "/">>, <<"/", "t">> }

\* ------------------------------------------------------------------------
\* The state machine
\* ------------------------------------------------------------------------

NoCall ==
    [op |-> "none", entry |-> <<>>, envs |-> <<>>, path |-> <<>>,
     err |-> "nil", inner |-> "nil", pre |-> <<>>, start |-> <<>>,
     cand |-> <<>>, loaded |-> <<>>, called |-> FALSE, commit |-> FALSE,
     ok |-> FALSE, out |-> <<>>]

\* The process starts with the default key, no root, and the variables it
\* inherits (PATH here, a list of directories).
\* The environment the process inherits: PATH, and TMPDIR unset or naming
\* the directory above the project directory.
Init ==
    /\ fs \in FsFew
    /\ grootEnv = kGROOT
    /\ \E tmp \in {<<>>, DirAt(Depth - 1)} :
          env = [k \in {kGROOT, kPATH, kTMPDIR} |->
                    IF k = kPATH THEN <<"/", "t", ":", "/", "a">>
                    ELSE IF k = kTMPDIR THEN tmp ELSE <<>>]
    /\ last = NoCall

Idle == last.op = "none"

KeySet(key0, key) ==
    /\ grootEnv' = IF key = <<>> THEN grootEnv ELSE key
    /\ last' = [NoCall EXCEPT !.op = "SetGrootKey", !.path = key0,
                              !.err = IF key = <<>> THEN "key cannot be empty" ELSE "nil",
                              !.pre = GetRoot]

SetGrootKey(key) ==
    /\ Idle
    /\ KeySet(key, TrimSpace(key))
    /\ UNCHANGED <<fs, env>>

\* A resolution call op has returned r: the environment is the one it left.
Resolved(op, entryFile, envFiles, path, r) ==
    /\ env' = r.env
    /\ last' = [NoCall EXCEPT !.op = op, !.entry = entryFile, !.envs = envFiles,
                              !.path = path,
                              !.err = IF op = "SetRootNoEnv"
                                      THEN SetRootNoEnvErr(r.err) ELSE r.err,
                              !.inner = r.err, !.pre = GetRoot,
                              !.start = r.start, !.cand = r.cand,
                              !.loaded = r.loaded, !.called = r.called,
                              !.commit = r.commit]

SetRoot(entryFile, envFiles, run) ==
    /\ Idle
    /\ \E names \in Orders(cleanFilenames(envFiles)) :
          Resolved("SetRoot", entryFile, envFiles, <<>>,
                   SetRootCall(env, grootEnv, entryFile, envFiles, names,
                               run.c, run.load))
    /\ UNCHANGED <<fs, grootEnv>>

SetRootNoEnv(entryFile, run) ==
    /\ Idle
    /\ Resolved("SetRootNoEnv", entryFile, <<>>, <<>>,
                SetRootCall(env, grootEnv, entryFile, <<>>, <<>>, run.c, run.load))
    /\ UNCHANGED <<fs, grootEnv>>

SetRootFromEnv(entryFile, run) ==
    /\ Idle
    /\ \E names \in Orders(cleanFilenames(<<entryFile>>)) :
          Resolved("SetRootFromEnv", entryFile, <<entryFile>>, <<>>,
                   SetRootCall(env, grootEnv, entryFile, <<entryFile>>, names,
                               run.c, run.load))
    /\ UNCHANGED <<fs, grootEnv>>

SetRootFromGit ==
    /\ Idle
    /\ \E c \in Contexts :
          Resolved("SetRootFromGit", <<>>, <<>>, <<>>,
                   SetRootFromGitCall(env, grootEnv, GetProjectDir(env, c)))
    /\ UNCHANGED <<fs, grootEnv>>

SetRootFromPath(path) ==
    /\ Idle
    /\ \E c \in Contexts :
          Resolved("SetRootFromPath", <<>>, <<>>, path,
                   SetRootFromPathCall(env, grootEnv, path, c))
    /\ UNCHANGED <<fs, grootEnv>>

ClearRoot ==
    /\ Idle
    /\ env' = Unsetenv(env, grootEnv)
    /\ last' = [NoCall EXCEPT !.op = "ClearRoot", !.pre = GetRoot]
    /\ UNCHANGED <<fs, grootEnv>>

CallIsRoot(path) ==
    /\ Idle
    /\ last' = [NoCall EXCEPT !.op = "IsRoot", !.path = path, !.pre = GetRoot,
                              !.ok = IsRoot(path)]
    /\ UNCHANGED <<fs, env, grootEnv>>

CallIsInRoot(path) ==
    /\ Idle
    /\ last' = [NoCall EXCEPT !.op = "IsInRoot", !.path = path, !.pre = GetRoot,
                              !.ok = IsInRoot(path)]
    /\ UNCHANGED <<fs, env, grootEnv>>

RelativeReturned(path, r) ==
    last' = [NoCall EXCEPT !.op = "GetRelativeToRoot", !.path = path,
                           !.pre = GetRoot, !.ok = r.ok, !.out = r.rel,
                           !.err = IF r.ok THEN "nil"
                                   ELSE IF GetRoot = <<>> THEN "root not set"
                                   ELSE "rel"]

CallGetRelativeToRoot(path) ==
    /\ Idle
    /\ RelativeReturned(path, GetRelativeToRoot(path))
    /\ UNCHANGED <<fs, env, grootEnv>>

\* The caller goes on with the result: the next call starts from the
\* environment and key that the call left.
Return ==
    /\ ~Idle
    /\ last.op # "arg"
    /\ last' = NoCall
    /\ UNCHANGED <<fs, env, grootEnv>>

Next ==
    \/ \E key \in KeyArgs : SetGrootKey(key)
    \/ \E entryFile \in EntryArgs, envFiles \in EnvFileArgs, run \in Runs :
          SetRoot(entryFile, envFiles, run)
    \/ \E entryFile \in EntryArgs, run \in Runs : SetRootNoEnv(entryFile, run)
    \/ \E entryFile \in EntryArgs, run \in Runs : SetRootFromEnv(entryFile, run)
    \/ SetRootFromGit
    \/ \E path \in PathArgs : SetRootFromPath(path)
    \/ ClearRoot
    \/ \E path \in QueryArgs : CallIsRoot(path)
    \/ \E path \in QueryArgs : CallIsInRoot(path)
    \/ \E path \in QueryArgs : CallGetRelativeToRoot(path)
    \/ Return

Spec == Init /\ [][Next]_vars

\* ------------------------------------------------------------------------
\* SpecResolve: the operations that store or clear the root, under the
\* default key, over every file system of FsFamily.
\* ------------------------------------------------------------------------

InitResolve ==
    /\ fs \in FsFamily \cup FsMagic
    /\ grootEnv = kGROOT
    /\ env = [k \in {kGROOT, kPATH} |->
                 IF k = kPATH THEN <<"/", "t", ":", "/", "a">> ELSE <<>>]
    /\ last = NoCall

NextResolve ==
    \/ \E entryFile \in EntryArgs, envFiles \in EnvFileArgs, run \in RunsResolve :
          SetRoot(entryFile, envFiles, run)
    \/ \E entryFile \in EntryArgs, run \in RunsResolve : SetRootNoEnv(entryFile, run)
    \/ \E entryFile \in EntryArgs, run \in RunsResolve : SetRootFromEnv(entryFile, run)
    \/ SetRootFromGit
    \/ \E path \in PathArgs : SetRootFromPath(path)
    \/ ClearRoot
    \/ Return

SpecResolve == InitResolve /\ [][NextResolve]_vars

\* ------------------------------------------------------------------------
\* SpecClean: ensureCleanPath applied to every string of at most MaxLen
\* characters over a separator, a space, a carriage return and a letter.
\* ------------------------------------------------------------------------

CleanAlphabet == {"/", " ", "\r", "a"}

CleanArgs == UNION { [1..n -> CleanAlphabet] : n \in 0..MaxLen }

InitClean ==
    /\ fs = FsOf([i \in 1..(Depth + 1) |-> "none"], {}, "none")
    /\ grootEnv = kGROOT
    /\ env = [k \in {kGROOT, kPATH} |->
                 IF k = kPATH THEN <<"/", "t", ":", "/", "a">> ELSE <<>>]
    /\ \E p \in CleanArgs : last = [NoCall EXCEPT !.op = "arg", !.path = p]

CallEnsureCleanPath ==
    /\ last.op = "arg"
    /\ last' = [NoCall EXCEPT !.op = "ensureCleanPath", !.path = last.path,
                              !.out = ensureCleanPath(last.path)]
    /\ UNCHANGED <<fs, env, grootEnv>>

NextClean == CallEnsureCleanPath

SpecClean == InitClean /\ [][NextClean]_vars

\* ------------------------------------------------------------------------
\* Vocabulary of the properties: the file system read directly
\* ------------------------------------------------------------------------

InChain(d) == \E i \in 1..(Depth + 1) : ChainDirs[i] = d

ChainIndex(d) == CHOOSE i \in 1..(Depth + 1) : ChainDirs[i] = d

\* The directories from the project directory to the top when the walk
\* starts at start: the chain, or MagicDir and the chain above it.
ChainOf(start) ==
    IF start = MagicDir
    THEN [i \in 1..(Depth + 1) |-> IF i = 1 THEN MagicDir ELSE ChainDirs[i]]
    ELSE ChainDirs

StartsWalk(start) == InChain(start) \/ start = MagicDir

\* Position of directory d among ChainOf(start); 0 if it is not there.
PlaceIn(start, d) ==
    IF \E i \in 1..(Depth + 1) : ChainOf(start)[i] = d
    THEN CHOOSE i \in 1..(Depth + 1) : ChainOf(start)[i] = d
    ELSE 0

\* Directory i of the chain holds a non-directory entry called name.
HoldsFile(i, name) ==
    /\ Join2(ChainDirs[i], name) \in DOMAIN fs
    /\ fs[Join2(ChainDirs[i], name)] = "file"

\* The same in the directories walked from start.
HoldsFileFrom(start, i, name) ==
    /\ Join2(ChainOf(start)[i], name) \in DOMAIN fs
    /\ fs[Join2(ChainOf(start)[i], name)] = "file"

\* The directories from start outwards that hold the file name.
MarkerDirs(start, name) ==
    { i \in PlaceIn(start, start)..(Depth + 1) : HoldsFileFrom(start, i, name) }

Least(S) == CHOOSE x \in S : \A y \in S : x <= y

\* The last call was SetRoot and it went through its loop: its arguments
\* were accepted, the project directory was found, no pattern was malformed.
Walked ==
    /\ last.op = "SetRoot"
    /\ last.start # <<>>
    /\ StartsWalk(last.start)
    /\ last.err # "glob"

Marker == TrimSpace(last.entry)

FoundDirs == MarkerDirs(last.start, Marker)

\* ------------------------------------------------------------------------
\* C1
\* ------------------------------------------------------------------------

\* C1: a SetRoot call that walks a chain in which some directory holds the
\* entry file as a non-directory stores, as Root, the first such directory
\* in walk order; directories of that name are passed over.
C1_FirstMarkerWins ==
    (Walked /\ FoundDirs # {})
        => /\ last.commit
           /\ GetRoot = ChainOf(last.start)[Least(FoundDirs)]

\* The project directory holds a directory called like the entry file, and
\* two directories further out hold the file: the nearer of the two is Root.
C1_Witness ==
    /\ Walked
    /\ last.start = ChainDirs[1]
    /\ Join2(ChainDirs[1], Marker) \in DOMAIN fs
    /\ fs[Join2(ChainDirs[1], Marker)] = "dir"
    /\ {2, 3} \subseteq FoundDirs
    /\ GetRoot = ChainDirs[2]

\* ------------------------------------------------------------------------
\* C2
\* ------------------------------------------------------------------------

\* C2: a SetRoot call that walks a chain in which no directory holds the
\* entry file returns "no root found" and leaves Root as it was.
C2_NoMarkerNoRootFound ==
    (Walked /\ FoundDirs = {})
        => /\ last.err = "no root found"
           /\ GetRoot = last.pre

\* ------------------------------------------------------------------------
\* C3
\* ------------------------------------------------------------------------

\* Position, among the directories walked, of the directory a found path
\* lies in; 0 if it lies in none of them.
PlaceOf(path) == PlaceIn(last.start, Dir(path))

\* C3: when SetRoot stores Root r, every candidate lies in a directory from
\* the project directory up to r, and the candidates come in walk order; so
\* does the list handed to the loader.
C3_CandidatesStopAtRoot ==
    (last.op = "SetRoot" /\ last.commit)
        => /\ \A k \in 1..Len(last.cand) :
                /\ PlaceOf(last.cand[k]) >= PlaceIn(last.start, last.start)
                /\ PlaceOf(last.cand[k]) <= PlaceIn(last.start, GetRoot)
           /\ \A k \in 1..Len(last.cand) : \A l \in (k + 1)..Len(last.cand) :
                PlaceOf(last.cand[k]) <= PlaceOf(last.cand[l])
           /\ last.called => last.loaded = last.cand

\* ------------------------------------------------------------------------
\* C4
\* ------------------------------------------------------------------------

\* C4: SetRootNoEnv succeeds exactly when SetRoot returned nil or
\* ErrNoEnvDefined, with ErrNoEnvDefined Root is the first directory of the
\* chain that holds the entry file, and any other error is returned.
C4_NoEnvWrapper ==
    last.op = "SetRootNoEnv"
        => /\ (last.err = "nil") <=> (last.inner \in {"nil", "ErrNoEnvDefined"})
           /\ last.inner \notin {"nil", "ErrNoEnvDefined"} => last.err = last.inner
           /\ last.inner = "ErrNoEnvDefined"
                => /\ MarkerDirs(last.start, Marker) # {}
                   /\ GetRoot = ChainOf(last.start)[Least(MarkerDirs(last.start, Marker))]

\* ------------------------------------------------------------------------
\* C5
\* ------------------------------------------------------------------------

\* Some requested name is the base name of no candidate.
SomeNameUnmatched ==
    \E n \in cleanFilenames(last.envs) :
        \A k \in 1..Len(last.cand) : Base(last.cand[k]) # n

\* C5: when SetRoot was given a valid bare name and found the entry file, it
\* fails with ErrMissingEnvs exactly when a requested name is the base name
\* of no candidate, and then the loader is not invoked; otherwise the loader
\* gets the whole candidate list.
C5_MissingEnvs ==
    (last.op = "SetRoot" /\ last.commit /\ cleanFilenames(last.envs) # {})
        => /\ (last.err = "ErrMissingEnvs") <=> SomeNameUnmatched
           /\ last.err = "ErrMissingEnvs" => ~last.called /\ last.loaded = <<>>
           /\ last.err # "ErrMissingEnvs" => last.called /\ last.loaded = last.cand

\* Two names asked for, one found and one not: nothing is loaded.
C5_Witness ==
    /\ last.op = "SetRoot"
    /\ last.commit
    /\ Cardinality(cleanFilenames(last.envs)) = 2
    /\ last.cand # <<>>
    /\ last.err = "ErrMissingEnvs"
    /\ ~last.called

\* ------------------------------------------------------------------------
\* C6
\* ------------------------------------------------------------------------

\* C6: GetRoot is empty or the absolute path of an existing directory.
C6_RootIsValidDir ==
    GetRoot = <<>> \/ (IsAbs(GetRoot) /\ Stat(GetRoot) = "dir")

\* ------------------------------------------------------------------------
\* C7
\* ------------------------------------------------------------------------

IsPrefixOf(a, b) == Len(a) <= Len(b) /\ SubSeq(b, 1, Len(a)) = a

\* Path p is root or lies below it: root's elements begin p's.
Under(p, root) == IsPrefixOf(Elems(Clean(root)), Elems(Clean(p)))

\* C7: with Root set, IsInRoot is true of Root and of every path below it,
\* and false of every path that is not below it (its parent, a sibling tree).
C7_IsInRootIsContainment ==
    (last.op = "IsInRoot" /\ last.pre # <<>> /\ IsAbs(last.pre))
        => (last.ok <=> Under(last.path, last.pre))

\* ------------------------------------------------------------------------
\* C8
\* ------------------------------------------------------------------------

\* C8: ensureCleanPath's result is a fixed point of ensureCleanPath and has
\* no doubled separator.
C8_CleanIdempotent ==
    last.op = "ensureCleanPath"
        => /\ ensureCleanPath(last.out) = last.out
           /\ ~Contains(last.out, <<PathSeparator, PathSeparator>>)

\* ------------------------------------------------------------------------
\* C9
\* ------------------------------------------------------------------------

\* C9: SetRootFromPath(d) succeeds for an absolute directory d and then
\* GetRoot is d, IsRoot(d) holds and GetRelativeToRoot(d) is "."; a blank
\* path, or an absolute path that is no directory, is an error; an error
\* leaves Root as it was, and success stores an existing directory.
C9_FromPathRoundTrip ==
    last.op = "SetRootFromPath"
        => /\ (IsAbs(last.path) /\ Stat(last.path) = "dir")
                => /\ last.err = "nil"
                   /\ GetRoot = last.path
                   /\ IsRoot(last.path)
                   /\ GetRelativeToRoot(last.path) = [ok |-> TRUE, rel |-> <<".">>]
           /\ (TrimSpace(last.path) = <<>>
               \/ (IsAbs(last.path) /\ Stat(last.path) # "dir"))
                => last.err # "nil"
           /\ last.err # "nil" => GetRoot = last.pre
           /\ last.err = "nil" => Stat(GetRoot) = "dir"

\* ------------------------------------------------------------------------
\* C10
\* ------------------------------------------------------------------------

\* C10 as stated: a SetRoot call that starts with Root unset and returns an
\* error ends with Root unset.
C10_ErrorLeavesUnset ==
    (last.op = "SetRoot" /\ last.pre = <<>> /\ last.err # "nil")
        => GetRoot = <<>>

\* C10 amended: starting with Root unset, the errors that precede the find
\* (arguments, project directory, pattern, no root found) leave Root unset,
\* "no root found" is returned only when no directory holds the entry file,
\* and the errors of the env files (ErrNoEnvDefined, ErrMissingEnvs, the
\* loader's) leave Root set to the first directory that holds the entry file.
C10_ErrorAfterCommitKeepsRoot ==
    (last.op = "SetRoot" /\ last.pre = <<>>)
        => /\ last.err \in {"entry file not defined", "ErrBadEnvsDefined",
                            "project dir", "glob", "no root found"}
                => GetRoot = <<>>
           /\ (last.err = "no root found" /\ StartsWalk(last.start))
                => FoundDirs = {}
           /\ last.err \in {"ErrNoEnvDefined", "ErrMissingEnvs", "load"}
                => /\ FoundDirs # {}
                   /\ GetRoot = ChainOf(last.start)[Least(FoundDirs)]

\* Root was unset, a requested env file is missing, and Root is now set.
C10_Witness ==
    /\ last.op = "SetRoot"
    /\ last.pre = <<>>
    /\ last.err = "ErrMissingEnvs"
    /\ GetRoot # <<>>

====
